---- MODULE Spec2Model ----
(***************************************************************************)
(* Model of lazy-splitter: chapter detection (pdf_splitter.detector,       *)
(* epub_splitter.detector) and chapter materialisation                     *)
(* (pdf_splitter.splitter, epub_splitter.splitter).                        *)
(*                                                                         *)
(* Confidence values are kept in hundredths (100 = 1.0) and the font size  *)
(* ratio in tenths (13 = 1.3), so that the comparisons of the source are   *)
(* integer comparisons.                                                    *)
(***************************************************************************)
EXTENDS Integers, Sequences, FiniteSets, TLC

VARIABLES
    fmt,            \* which package handles the document: "pdf" or "epub"; "unit" in a direct call
    pc,             \* "loaded" -> "detected" -> "split", or "raised", "aborted"; "call" -> "returned"
    doc,            \* the PDF document as PyMuPDF exposes it (pdf only)
    book,           \* the EPUB book as ebooklib exposes it (epub only)
    sensitivity,    \* ChapterDetector.sensitivity / EpubChapterDetector.sensitivity
    strategy,       \* strategy argument of detect / EpubChapterDetector.strategy
    level,          \* bookmark_level argument / EpubChapterDetector.toc_level
    result,         \* DetectionResult / EpubDetectionResult returned by detect
    calls,          \* the detectors detect called, in call order
    output_format,  \* EpubSplitter.output_format
    created_files,  \* list returned by split
    written,        \* the files on disk, in the order they were saved
    handle,         \* the fitz document handle of the running call: "unopened", "open", "closed"
    prompt,         \* the confirmation prompt of the split command: "none", "accepted",
                    \* "declined"; "no command" when split was called directly
    fn,             \* the function a direct call applies, "none" in a split run
    args,           \* its arguments
    ret             \* its return value

\* the state of a split run apart from its position
run_state == <<fmt, doc, book, sensitivity, strategy, level, result, calls,
               output_format, created_files, written, handle, prompt>>

vars == <<fmt, pc, doc, book, sensitivity, strategy, level, result, calls,
          output_format, created_files, written, handle, prompt, fn, args, ret>>

-----------------------------------------------------------------------------
(* Bounds of the explored input space *)

MaxPages == 2
MaxToc == 3
MaxLevel == 2
MaxFiles == 2

-----------------------------------------------------------------------------
(* Generic helpers *)

Min(S) == CHOOSE m \in S : \A n \in S : m <= n

RECURSIVE Concat(_)
Concat(ss) == IF ss = <<>> THEN <<>> ELSE Head(ss) \o Concat(Tail(ss))

RECURSIVE SumSeq(_)
SumSeq(s) == IF s = <<>> THEN 0 ELSE Head(s) + SumSeq(Tail(s))

Range(s) == {s[i] : i \in 1..Len(s)}

SeqsUpTo(S, n) == UNION {[1..k -> S] : k \in 0..n}

-----------------------------------------------------------------------------
(* Texts of the spans and outline titles the documents carry.  str.strip, *)
(* str.split and the CHAPTER_PATTERNS regular expressions are tabulated   *)
(* over these texts.                                                       *)

TxtChapter == "Chapter 1: Introduction"
TxtPart == " Part II "
TxtTitle == "Introduction"
TxtBody == "Some regular paragraph text here"
TxtBlank == "   "
TxtNumbered == "1. Introduction"
TxtLongHeading == "A Longer Heading That Runs To Eight Words"
TxtLongChapter == "Chapter 3: A Heading That Runs To Nine Words"
TxtRunOnChapter == "Chapter 2 of a handbook whose very long title runs past ten words"
TxtRunOn == "An unusually long line of running text that goes past ten words"

strip(text) ==
    CASE text = TxtPart -> "Part II"
      [] text = TxtBlank -> ""
      [] OTHER -> text

word_count(text) ==
    CASE text = TxtChapter -> 3
      [] text = "Part II" -> 2
      [] text = TxtPart -> 2
      [] text = TxtTitle -> 1
      [] text = TxtBody -> 5
      [] text = "Complete Document" -> 2
      [] text = TxtNumbered -> 2
      [] text = TxtLongHeading -> 8
      [] text = TxtLongChapter -> 9
      [] text = TxtRunOnChapter -> 13
      [] text = TxtRunOn -> 12
      [] OTHER -> 0

\* how many of the CHAPTER_PATTERNS match the text under re.IGNORECASE
matching_patterns(text) ==
    CASE text \in {TxtChapter, "Part II", TxtLongChapter, TxtRunOnChapter} -> 2
      [] text = TxtNumbered -> 1
      [] OTHER -> 0

CHAPTER_PATTERNS(text) == matching_patterns(text) > 0

-----------------------------------------------------------------------------
(* pdf_splitter.models *)

Chapter(title, start_page, end_page, lvl, detection_method, confidence) ==
    [title |-> title, start_page |-> start_page, end_page |-> end_page,
     level |-> lvl, detection_method |-> detection_method,
     confidence |-> confidence]

page_count(chapter) == chapter.end_page - chapter.start_page + 1

-----------------------------------------------------------------------------
(* pdf_splitter.detector.ChapterDetector *)

\* variant: the presets of low and high exchanged
thresholds_exchanged ==
    [low |-> [font_size_ratio |-> 12, min_confidence |-> 40],
     medium |-> [font_size_ratio |-> 13, min_confidence |-> 60],
     high |-> [font_size_ratio |-> 15, min_confidence |-> 80]]

thresholds ==
    [low |-> [font_size_ratio |-> 15, min_confidence |-> 80],
     medium |-> [font_size_ratio |-> 13, min_confidence |-> 60],
     high |-> [font_size_ratio |-> 12, min_confidence |-> 40]]

_set_thresholds(sens) ==
    IF sens \in DOMAIN thresholds THEN thresholds[sens] ELSE thresholds["medium"]

\* variant: the end page is the next entry's start page
bookmark_chapter_shared_boundary(top_level_items, i, total_pages) ==
    LET start_page == top_level_items[i].page
        end_page == IF i + 1 <= Len(top_level_items)
                    THEN top_level_items[i + 1].page
                    ELSE total_pages
    IN  IF start_page <= end_page
        THEN <<Chapter(strip(top_level_items[i].title), start_page, end_page,
                       top_level_items[i].level, "bookmark", 100)>>
        ELSE <<>>

\* bookmark chapter i of the level-filtered outline, or none when its range is empty
bookmark_chapter(top_level_items, i, total_pages) ==
    LET start_page == top_level_items[i].page
        end_page == IF i + 1 <= Len(top_level_items)
                    THEN top_level_items[i + 1].page - 1
                    ELSE total_pages
    IN  IF start_page <= end_page
        THEN <<Chapter(strip(top_level_items[i].title), start_page, end_page,
                       top_level_items[i].level, "bookmark", 100)>>
        ELSE <<>>

_detect_from_bookmarks(d, bookmark_level) ==
    LET toc == d.toc
        total_pages == d.total_pages
        top_level_items == SelectSeq(toc, LAMBDA item : item.level = bookmark_level)
    IN  IF toc = <<>> THEN <<>>
        ELSE Concat([i \in 1..Len(top_level_items) |->
                        bookmark_chapter(top_level_items, i, total_pages)])

\* sum and number of the positive span sizes of a page; the average is sum / count
_get_average_font_size(blocks) ==
    LET sizes == Concat([b \in 1..Len(blocks) |->
                    IF blocks[b].type = 0
                    THEN Concat([l \in 1..Len(blocks[b].lines) |->
                            SelectSeq([s \in 1..Len(blocks[b].lines[l]) |->
                                          blocks[b].lines[l][s].size],
                                      LAMBDA size : size > 0)])
                    ELSE <<>>])
    IN  [sum |-> SumSeq(sizes), count |-> Len(sizes)]

_is_potential_heading(text, font_size, all_blocks, sens) ==
    LET avg == _get_average_font_size(all_blocks)
        font_size_ratio == _set_thresholds(sens).font_size_ratio
    IN  \/ CHAPTER_PATTERNS(text)
        \/ /\ avg.count > 0 /\ avg.sum > 0
           \* font_size >= (sum / count) * ratio, cross-multiplied
           /\ font_size * avg.count * 10 >= avg.sum * font_size_ratio
           /\ word_count(text) <= 10

\* variant: the size boosts need a size above 16 and above 14
size_boost_exclusive(font_size) ==
    IF font_size > 16 THEN 10 ELSE IF font_size > 14 THEN 5 ELSE 0

\* the boost for larger font sizes
size_boost(font_size) ==
    IF font_size >= 16 THEN 10 ELSE IF font_size >= 14 THEN 5 ELSE 0

\* variant: every matching pattern adds its boost and the sum is returned
\* unclamped
_calculate_confidence_unclamped(text, font_size) ==
    LET base == 50
        pattern == 40 * matching_patterns(text)
        size == size_boost(font_size)
        words == IF word_count(text) > 10 THEN 20
                 ELSE IF word_count(text) > 6 THEN 10 ELSE 0
    IN  base + pattern + size - words

\* confidence in hundredths; the float sums of the code differ from these
\* by at most one unit in the last place (0.5 + 0.1 - 0.2 is
\* 0.39999999999999997)
_calculate_confidence(text, font_size) ==
    LET base == 50
        pattern == IF CHAPTER_PATTERNS(text) THEN 40 ELSE 0
        size == size_boost(font_size)
        words == IF word_count(text) > 10 THEN 20
                 ELSE IF word_count(text) > 6 THEN 10 ELSE 0
        confidence == base + pattern + size - words
    IN  IF confidence > 100 THEN 100 ELSE IF confidence < 0 THEN 0 ELSE confidence

\* the candidate a line contributes: its first non-empty span that is a
\* potential heading ends the scan of the line, accepted or not
line_candidates(spans, page_num, blocks, sens) ==
    LET hits == {s \in 1..Len(spans) :
                    /\ strip(spans[s].text) # ""
                    /\ _is_potential_heading(strip(spans[s].text), spans[s].size, blocks, sens)}
    IN  IF hits = {} THEN <<>>
        ELSE LET span == spans[Min(hits)]
                 confidence == _calculate_confidence(strip(span.text), span.size)
             IN  IF confidence >= _set_thresholds(sens).min_confidence
                 THEN <<[page |-> page_num, title |-> strip(span.text),
                         confidence |-> confidence]>>
                 ELSE <<>>

potential_chapters(d, sens) ==
    Concat([p \in 1..d.total_pages |->
        LET blocks == d.pages[p]
        IN  Concat([b \in 1..Len(blocks) |->
                IF blocks[b].type = 0
                THEN Concat([l \in 1..Len(blocks[b].lines) |->
                        line_candidates(blocks[b].lines[l], p, blocks, sens)])
                ELSE <<>>])])

_detect_from_heuristics(d, sens) ==
    LET potential == potential_chapters(d, sens)
        total_pages == d.total_pages
    IN  [i \in 1..Len(potential) |->
            Chapter(potential[i].title,
                    potential[i].page,
                    IF i + 1 <= Len(potential) THEN potential[i + 1].page - 1
                    ELSE total_pages,
                    1, "heuristic", potential[i].confidence)]

\* variant: the whole-document chapter in 0-based page numbers
fallback_chapter_zero_based(total_pages) ==
    Chapter("Complete Document", 0, total_pages - 1, 1, "fallback", 100)

fallback_chapter(total_pages) ==
    Chapter("Complete Document", 1, total_pages, 1, "fallback", 100)

strategy_used_of(requested, chapters) ==
    IF chapters # <<>> THEN requested ELSE "fallback"

\* variant: the heuristics run after any strategy that found nothing
runs_heuristics_any_strategy(chapters, strat) == chapters = <<>>

\* variant: the heuristics run whenever the strategy allows them
runs_heuristics_always(chapters, strat) == strat \in {"heuristic", "hybrid"}

\* the guard of the heuristic stage
runs_heuristics(chapters, strat) == chapters = <<>> /\ strat \in {"heuristic", "hybrid"}

detect(d, sens, strat, bookmark_level) ==
    LET total_pages == d.total_pages
        has_bookmarks == Len(d.toc) > 0
        try_bookmarks == strat = "bookmarks" \/ (strat = "hybrid" /\ has_bookmarks)
        chapters1 == IF try_bookmarks THEN _detect_from_bookmarks(d, bookmark_level)
                     ELSE <<>>
        try_heuristics == runs_heuristics(chapters1, strat)
        chapters2 == IF try_heuristics THEN _detect_from_heuristics(d, sens)
                     ELSE chapters1
    IN  [chapters |-> IF chapters2 = <<>> THEN <<fallback_chapter(total_pages)>>
                      ELSE chapters2,
         strategy_used |-> IF chapters2 = <<>> THEN "fallback"
                           ELSE strategy_used_of(strat, chapters2),
         total_pages |-> total_pages,
         has_bookmarks |-> has_bookmarks,
         calls |-> (IF try_bookmarks THEN <<"bookmarks">> ELSE <<>>)
                   \o (IF try_heuristics THEN <<"heuristic">> ELSE <<>>)]

-----------------------------------------------------------------------------
(* pdf_splitter.splitter.PDFSplitter *)

split(chapters) ==
    [index \in 1..Len(chapters) |-> [index |-> index, title |-> chapters[index].title]]

-----------------------------------------------------------------------------
(* Strings of the EPUB side are sequences of characters.  An optional     *)
(* string (Optional[str]) is the empty tuple for None and a one-element   *)
(* tuple holding the string otherwise.                                     *)

None == <<>>
Some(x) == <<x>>
\* Python truthiness of an Optional[str]: neither None nor ""
truthy(opt) == opt # None /\ opt[1] # <<>>

IndexOf(str, ch) ==
    IF \E i \in 1..Len(str) : str[i] = ch
    THEN Min({i \in 1..Len(str) : str[i] = ch})
    ELSE 0

RECURSIVE lstrip(_)
lstrip(str) ==
    IF str # <<>> /\ Head(str) = " " THEN lstrip(Tail(str)) ELSE str

RECURSIVE rstrip(_)
rstrip(str) ==
    IF str # <<>> /\ str[Len(str)] = " " THEN rstrip(SubSeq(str, 1, Len(str) - 1))
    ELSE str

str_strip(str) == rstrip(lstrip(str))

LastIndexOf(str, ch) ==
    IF \E i \in 1..Len(str) : str[i] = ch
    THEN CHOOSE i \in 1..Len(str) : str[i] = ch /\ \A j \in (i + 1)..Len(str) : str[j] # ch
    ELSE 0

Lower == {"a", "b", "c", "d", "e", "f", "p", "u"}
Upper == {"A", "B", "C", "D", "E", "F", "P", "U"}
upper(ch) == CASE ch = "a" -> "A" [] ch = "b" -> "B" [] ch = "c" -> "C"
               [] ch = "d" -> "D" [] ch = "e" -> "E" [] ch = "f" -> "F"
               [] ch = "p" -> "P" [] ch = "u" -> "U" [] OTHER -> ch
lower(ch) == CASE ch = "A" -> "a" [] ch = "B" -> "b" [] ch = "C" -> "c"
               [] ch = "D" -> "d" [] ch = "E" -> "e" [] ch = "F" -> "f"
               [] ch = "P" -> "p" [] ch = "U" -> "u" [] OTHER -> ch

\* pathlib.PurePath.stem: the last path component without its last suffix
path_stem(name) ==
    LET base == SubSeq(name, LastIndexOf(name, "/") + 1, Len(name))
        dot == LastIndexOf(base, ".")
    IN  IF dot > 1 THEN SubSeq(base, 1, dot - 1) ELSE base

str_replace(str, old, new) == [i \in 1..Len(str) |-> IF str[i] = old THEN new ELSE str[i]]

\* str.title: a cased character is upper case after an uncased one, lower case otherwise
str_title(str) ==
    [i \in 1..Len(str) |->
        IF i = 1 \/ str[i - 1] \notin (Lower \cup Upper) THEN upper(str[i])
        ELSE lower(str[i])]

-----------------------------------------------------------------------------
(* epub_splitter.models *)

EpubChapter(title, file_path, html_id, lvl, detection_method, confidence) ==
    [title |-> title, file_path |-> file_path, html_id |-> html_id,
     level |-> lvl, detection_method |-> detection_method,
     confidence |-> confidence]

\* EpubChapter.location
location(chapter) ==
    IF truthy(chapter.html_id)
    THEN chapter.file_path \o <<"#">> \o chapter.html_id[1]
    ELSE chapter.file_path

-----------------------------------------------------------------------------
(* ebooklib.epub.EpubBook as the detector and the splitter use it *)

get_items_of_type(bk, type) == SelectSeq(bk.items, LAMBDA item : item.type = type)

\* Optional item
get_item_with_id(bk, id) ==
    LET found == SelectSeq(bk.items, LAMBDA item : item.id = id)
    IN  IF found = <<>> THEN None ELSE Some(Head(found))

\* Optional item
get_item_with_href(bk, href) ==
    LET found == SelectSeq(bk.items, LAMBDA item : item.name = href)
    IN  IF found = <<>> THEN None ELSE Some(Head(found))

-----------------------------------------------------------------------------
(* epub_splitter.detector.EpubChapterDetector *)

_parse_href(href) ==
    LET i == IndexOf(href, "#")
    IN  IF i > 0
        THEN [file_path |-> SubSeq(href, 1, i - 1),
              html_id |-> Some(SubSeq(href, i + 1, Len(href)))]
        ELSE [file_path |-> href, html_id |-> None]

\* hasattr(obj, name): an outline node is a record of the attributes it has
hasattr(obj, name) == name \in DOMAIN obj

toc_chapter_root_level(node, current_level) ==
    EpubChapter(node.title, _parse_href(node.href).file_path,
                _parse_href(node.href).html_id, 1, "native", 100)

toc_chapter(node, current_level) ==
    EpubChapter(node.title, _parse_href(node.href).file_path,
                _parse_href(node.href).html_id, current_level, "native", 100)

\* a node of kind "section" is the tuple (section, children); any other node
\* is a single object
RECURSIVE _extract_toc_entries(_, _)
_extract_toc_entries(toc_items, current_level) ==
    IF toc_items = <<>> THEN <<>>
    ELSE LET item == Head(toc_items)
             entry == IF hasattr(item, "title") /\ hasattr(item, "href")
                      THEN <<toc_chapter(item, current_level)>>
                      ELSE <<>>
             here == IF item.kind = "section"
                     THEN entry
                          \o (IF item.children # <<>>
                              THEN _extract_toc_entries(item.children, current_level + 1)
                              ELSE <<>>)
                     ELSE entry
         IN  here \o _extract_toc_entries(Tail(toc_items), current_level)

_detect_from_toc(bk, toc_level) ==
    LET entries == _extract_toc_entries(bk.toc, 1)
    IN  IF bk.toc = <<>> THEN [chapters |-> <<>>, has_toc |-> FALSE]
        ELSE [chapters |-> IF toc_level > 0
                           THEN SelectSeq(entries, LAMBDA ch : ch.level = toc_level)
                           ELSE entries,
              has_toc |-> TRUE]

heading_tags(sens) ==
    CASE sens = "low" -> <<"h1">>
      [] sens = "medium" -> <<"h1", "h2">>
      [] sens = "high" -> <<"h1", "h2", "h3">>
      [] OTHER -> <<"h1", "h2">>

tag_level(tag) == CASE tag = "h1" -> 1 [] tag = "h2" -> 2 [] OTHER -> 3

tag_confidence(tag) == IF tag = "h1" THEN 100 ELSE IF tag = "h2" THEN 70 ELSE 50

\* the chapters of one content file: for each tag in turn, its headings in
\* document order; a file that does not parse contributes nothing
structure_chapters(item, tags) ==
    IF ~item.content.parses THEN <<>>
    ELSE Concat([t \in 1..Len(tags) |->
            LET headings == SelectSeq(item.content.elements,
                                      LAMBDA el : el.tag = tags[t])
                titled == SelectSeq(headings, LAMBDA el : str_strip(el.text) # <<>>)
            IN  [h \in 1..Len(titled) |->
                    EpubChapter(str_strip(titled[h].text), item.name, titled[h].id,
                                tag_level(tags[t]), "structural",
                                tag_confidence(tags[t]))]])

_detect_from_structure(bk, sens) ==
    LET items == get_items_of_type(bk, "document")
    IN  Concat([i \in 1..Len(items) |-> structure_chapters(items[i], heading_tags(sens))])

_extract_title_from_content(item) ==
    LET c == item.content
        h1 == SelectSeq(c.elements, LAMBDA el : el.tag = "h1")
        h2 == SelectSeq(c.elements, LAMBDA el : el.tag = "h2")
    IN  IF ~c.parses THEN <<>>
        ELSE IF truthy(c.title) THEN str_strip(c.title[1])
        ELSE IF h1 # <<>> THEN str_strip(Head(h1).text)
        ELSE IF h2 # <<>> THEN str_strip(Head(h2).text)
        ELSE <<>>

manifest_chapter(bk, item_id) ==
    LET item == get_item_with_id(bk, item_id)
        title == _extract_title_from_content(item[1])
    IN  IF item # None /\ item[1].type = "document"
        THEN <<EpubChapter(IF title = <<>>
                           THEN str_title(str_replace(path_stem(item[1].name), "_", " "))
                           ELSE title,
                           item[1].name, None, 1, "manifest", 60)>>
        ELSE <<>>

_detect_from_manifest(bk) ==
    Concat([i \in 1..Len(bk.spine) |-> manifest_chapter(bk, bk.spine[i])])

epub_detect(bk, strat, sens, toc_level) ==
    LET total_files == Len(get_items_of_type(bk, "document"))
        from_toc == _detect_from_toc(bk, toc_level)
        from_structure == _detect_from_structure(bk, sens)
        from_manifest == _detect_from_manifest(bk)
        hybrid1 == IF from_toc.chapters = <<>> THEN from_structure ELSE from_toc.chapters
    IN  CASE strat = "native" ->
               [chapters |-> from_toc.chapters, strategy_used |-> "native",
                total_files |-> total_files, has_toc |-> from_toc.has_toc,
                calls |-> <<"native">>]
          [] strat = "structural" ->
               [chapters |-> from_structure, strategy_used |-> "structural",
                total_files |-> total_files, has_toc |-> FALSE,
                calls |-> <<"structural">>]
          [] strat = "manifest" ->
               [chapters |-> from_manifest, strategy_used |-> "manifest",
                total_files |-> total_files, has_toc |-> FALSE,
                calls |-> <<"manifest">>]
          [] OTHER ->
               [chapters |-> IF hybrid1 = <<>> THEN from_manifest ELSE hybrid1,
                strategy_used |-> IF hybrid1 = <<>> THEN "manifest (fallback)"
                                  ELSE IF from_toc.chapters = <<>>
                                       THEN "structural (fallback)"
                                       ELSE "native",
                total_files |-> total_files, has_toc |-> from_toc.has_toc,
                calls |-> <<"native">>
                          \o (IF from_toc.chapters = <<>> THEN <<"structural">> ELSE <<>>)
                          \o (IF hybrid1 = <<>> THEN <<"manifest">> ELSE <<>>)]

-----------------------------------------------------------------------------
(* epub_splitter.splitter.EpubSplitter *)

output_path(chapters, index) == [index |-> index, title |-> chapters[index].title]

_split_to_epub(bk, chapters) ==
    [index \in 1..Len(chapters) |-> output_path(chapters, index)]

_split_to_pdf(bk, chapters) ==
    Concat([index \in 1..Len(chapters) |->
        IF get_item_with_href(bk, chapters[index].file_path) = None
        THEN <<>>
        ELSE <<output_path(chapters, index)>>])

epub_split(bk, chapters, format) ==
    IF format = "pdf" THEN _split_to_pdf(bk, chapters)
    ELSE _split_to_epub(bk, chapters)

-----------------------------------------------------------------------------
(* Documents *)

Span(text, size) == [text |-> text, size |-> size]
TextBlock(lines) == [type |-> 0, lines |-> lines]
ImageBlock == [type |-> 1, lines |-> <<>>]

BodyLine == <<Span(TxtBody, 12)>>

\* running text only
BodyPage == <<TextBlock(<<BodyLine, BodyLine>>)>>
\* one heading line whose first span is blank and which carries two headings
HeadingPage ==
    <<ImageBlock,
      TextBlock(<<<<Span(TxtBlank, 16), Span(TxtChapter, 16), Span(TxtPart, 16)>>,
                  BodyLine>>)>>
\* two heading lines on the same page
TwoHeadingPage ==
    <<TextBlock(<<<<Span(TxtChapter, 16)>>, <<Span(TxtPart, 14)>>, BodyLine>>)>>
\* a large title that matches no pattern
TitlePage ==
    <<TextBlock(<<<<Span(TxtTitle, 18)>>, BodyLine, BodyLine, BodyLine>>)>>

PageLayouts == {BodyPage, HeadingPage, TwoHeadingPage, TitlePage}

PageDests == {-1} \cup (1..(MaxPages + 1))

TocEntries ==
    {[level |-> l, title |-> IF l = 1 THEN TxtPart ELSE TxtTitle, page |-> p] :
        l \in 1..MaxLevel, p \in PageDests}

\* Two families of documents are explored: documents with an outline of up to
\* MaxToc entries over running text, and documents with any page layouts and
\* an outline of at most one entry.
OutlineDocs ==
    UNION {[total_pages : {n}, toc : SeqsUpTo(TocEntries, MaxToc),
            pages : {[p \in 1..n |-> BodyPage]}] : n \in 1..MaxPages}

HeadingDocs ==
    UNION {[total_pages : {n}, toc : SeqsUpTo(TocEntries, 1),
            pages : [1..n -> PageLayouts]] : n \in 1..MaxPages}

PdfDocs == OutlineDocs \cup HeadingDocs

Sensitivities == {"low", "medium", "high"}
PdfStrategies == {"bookmarks", "heuristic", "hybrid"}

NoResult == [chapters |-> <<>>, strategy_used |-> "", total_pages |-> 0,
             has_bookmarks |-> FALSE]

-----------------------------------------------------------------------------
(* Books *)

Digit(i) == <<"1", "2", "3", "4", "5">>[i]
FileName(i) == <<"t", "/", "c", "_", Digit(i), ".", "x">>
MissingName == <<"t", "/", "m", ".", "x">>

Heading(tag, text, id) == [tag |-> tag, text |-> text, id |-> id]
Content(parses, title, elements) ==
    [parses |-> parses, title |-> title, elements |-> elements]

\* markup without headings
PlainContent == Content(TRUE, None, <<>>)
\* a title element and one h1 that carries an id
H1Content ==
    Content(TRUE, Some(<<" ", "T", " ">>), <<Heading("h1", <<"a", " ">>, Some(<<"s">>))>>)
\* an h2 before an h1, an h3 without text and an h3 with text
MixedContent ==
    Content(TRUE, None,
            <<Heading("h2", <<"b">>, None), Heading("h1", <<"a">>, None),
              Heading("h3", <<" ">>, None), Heading("h3", <<"c">>, None)>>)
\* markup lxml fails to parse
BrokenContent == Content(FALSE, None, <<>>)

Contents == {PlainContent, H1Content, MixedContent, BrokenContent}

DocumentItem(i, content) ==
    [id |-> <<"i", Digit(i)>>, name |-> FileName(i), type |-> "document",
     content |-> content]
ImageItem ==
    [id |-> <<"i", "m", "g">>, name |-> <<"t", "/", "p", ".", "g">>, type |-> "image",
     content |-> BrokenContent]

Link(title, href) == [kind |-> "link", title |-> title, href |-> href, children |-> <<>>]
Section(title, href, children) ==
    [kind |-> "section", title |-> title, href |-> href, children |-> children]

FlatToc ==
    <<Link(<<"A">>, FileName(1)), Link(<<"B">>, FileName(1) \o <<"#", "s">>)>>
NestedToc ==
    <<Section(<<"P">>, <<>>, <<Link(<<"A">>, FileName(1) \o <<"#", "s">>),
                               Link(<<"B">>, FileName(1))>>),
      Link(<<"M">>, MissingName)>>

Tocs == {<<>>, FlatToc, NestedToc}

\* reading orders: every file in manifest order, the image and the files in
\* reverse order, or nothing
Spines(n) ==
    {[i \in 1..n |-> <<"i", Digit(i)>>],
     <<ImageItem.id>> \o [i \in 1..n |-> <<"i", Digit(n + 1 - i)>>],
     <<>>}

Books ==
    UNION {[toc : Tocs,
            items : {<<ImageItem>> \o [i \in 1..n |-> DocumentItem(i, cs[i])] :
                        cs \in [1..n -> Contents]},
            spine : Spines(n)] : n \in 1..MaxFiles}

EpubStrategies == {"native", "structural", "manifest", "hybrid"}
OutputFormats == {"epub", "pdf"}

NoDoc == [total_pages |-> 0, toc |-> <<>>, pages |-> <<>>]
NoBook == [toc |-> <<>>, items |-> <<>>, spine |-> <<>>]

-----------------------------------------------------------------------------
(* Behaviour *)

NoCall == /\ fn = "none" /\ args = <<>> /\ ret = <<>>

InitPdf ==
    /\ fmt = "pdf"
    /\ pc = "loaded"
    /\ doc \in PdfDocs
    /\ book = NoBook
    /\ sensitivity \in Sensitivities
    /\ strategy \in PdfStrategies
    /\ level \in 0..MaxLevel
    /\ result = NoResult
    /\ calls = <<>>
    /\ output_format = "pdf"
    /\ created_files = <<>>
    /\ written = <<>>
    /\ handle = "unopened"
    /\ prompt = "none"
    /\ NoCall

InitEpub ==
    /\ fmt = "epub"
    /\ pc = "loaded"
    /\ doc = NoDoc
    /\ book \in Books
    /\ sensitivity \in Sensitivities
    /\ strategy \in EpubStrategies
    /\ level \in 0..MaxLevel
    /\ result = NoResult
    /\ calls = <<>>
    /\ output_format = "epub"
    /\ created_files = <<>>
    /\ written = <<>>
    /\ handle = "unopened"
    /\ prompt = "none"
    /\ NoCall

\* what the document library may raise while detect holds the document
DetectFaults == {"none", "get_toc", "get_text"}
\* what it may raise while split holds the document
SplitFaults == {"none", "insert_pdf", "save"}
Answers == {"y", "n"}

\* the library call of detect that raises under the fault, given what detect runs
detect_raises(fault, detectors) ==
    \/ fault = "get_toc"
    \/ /\ fault = "get_text"
       /\ "heuristic" \in Range(detectors)

\* the detectors detect has called when the fault makes it raise
calls_before_raise(fault, detectors) ==
    IF fault = "get_toc" THEN <<>> ELSE detectors

\* the library call of split that raises under the fault
split_raises(fault, chapters) == fault # "none" /\ chapters # <<>>

\* what write_epub or save may raise while the EPUB splitter writes
EpubSplitFaults == {"none", "write"}

\* the files saved before the one that fails
written_before(paths, failing) == SubSeq(paths, 1, failing - 1)

\* pdf_splitter.cli split: the warning before the split
pdf_needs_confirmation(res) == res.strategy_used = "fallback"

\* epub_splitter.cli split: the warning before the split
epub_needs_confirmation(res) ==
    \E i \in 1..Len(res.chapters) : res.chapters[i].confidence < 50

\* ChapterDetector(sensitivity).detect(pdf_path, strategy, bookmark_level)
PdfDetect ==
    /\ fmt = "pdf" /\ pc = "loaded"
    /\ \E fault \in DetectFaults, r \in {detect(doc, sensitivity, strategy, level)} :
        IF detect_raises(fault, r.calls)
        THEN /\ pc' = "raised"
             /\ handle' = "open"
             /\ calls' = calls_before_raise(fault, r.calls)
             /\ UNCHANGED result
        ELSE /\ result' = [chapters |-> r.chapters,
                           strategy_used |-> r.strategy_used,
                           total_pages |-> r.total_pages,
                           has_bookmarks |-> r.has_bookmarks]
             /\ calls' = r.calls
             /\ pc' = "detected"
             /\ handle' = "closed"
    /\ UNCHANGED <<fmt, doc, book, sensitivity, strategy, level, output_format,
                   created_files, written, prompt, fn, args, ret>>

\* pdf_splitter.cli split after detection: the confirmation, then
\* PDFSplitter(output_dir).split(pdf_path, result.chapters)
PdfSplit ==
    /\ fmt = "pdf" /\ pc = "detected"
    /\ \E answer \in Answers, fault \in SplitFaults, paths \in {split(result.chapters)} :
        /\ prompt' = IF ~pdf_needs_confirmation(result) THEN "none"
                     ELSE IF answer = "y" THEN "accepted" ELSE "declined"
        /\ IF pdf_needs_confirmation(result) /\ answer = "n"
           THEN /\ pc' = "aborted"
                /\ UNCHANGED <<created_files, written, handle>>
           ELSE IF split_raises(fault, result.chapters)
           THEN /\ \E failing \in 1..Len(result.chapters) :
                      written' = written_before(paths, failing)
                /\ pc' = "raised"
                /\ handle' = "open"
                /\ UNCHANGED created_files
           ELSE /\ created_files' = paths
                /\ written' = paths
                /\ pc' = "split"
                /\ handle' = "closed"
    /\ UNCHANGED <<fmt, doc, book, sensitivity, strategy, level, result, calls,
                   output_format, fn, args, ret>>

\* EpubChapterDetector(strategy, sensitivity, toc_level).detect(epub_path)
EpubDetect ==
    /\ fmt = "epub" /\ pc = "loaded"
    /\ \E r \in {epub_detect(book, strategy, sensitivity, level)} :
           /\ result' = [chapters |-> r.chapters, strategy_used |-> r.strategy_used,
                         total_files |-> r.total_files, has_toc |-> r.has_toc]
           /\ calls' = r.calls
    /\ pc' = "detected"
    /\ UNCHANGED <<fmt, doc, book, sensitivity, strategy, level, output_format,
                   created_files, written, handle, prompt, fn, args, ret>>

\* epub_splitter.cli split after detection: the empty-result return and the
\* confirmation, then
\* EpubSplitter(output_dir, filename_pattern=pattern).split(epub_path,
\* result.chapters); the command has no option for the output format
EpubSplit ==
    /\ fmt = "epub" /\ pc = "detected"
    /\ \E answer \in Answers, fault \in EpubSplitFaults :
        IF result.chapters = <<>>
        THEN /\ pc' = "aborted"
             /\ UNCHANGED <<output_format, created_files, written, prompt>>
        ELSE /\ prompt' = IF ~epub_needs_confirmation(result) THEN "none"
                          ELSE IF answer = "y" THEN "accepted" ELSE "declined"
             /\ IF epub_needs_confirmation(result) /\ answer = "n"
                THEN /\ pc' = "aborted"
                     /\ UNCHANGED <<output_format, created_files, written>>
                ELSE \E paths \in {epub_split(book, result.chapters, "epub")} :
                     IF split_raises(fault, paths)
                     THEN /\ \E failing \in 1..Len(paths) :
                                written' = written_before(paths, failing)
                          /\ output_format' = "epub"
                          /\ pc' = "raised"
                          /\ UNCHANGED created_files
                     ELSE /\ output_format' = "epub"
                          /\ created_files' = paths
                          /\ written' = paths
                          /\ pc' = "split"
    /\ UNCHANGED <<fmt, doc, book, sensitivity, strategy, level, result, calls,
                   handle, fn, args, ret>>

\* EpubSplitter(output_dir, output_format=format).split(epub_path, result.chapters)
\* called from a program, with no command and no confirmation; the PDF route
\* opens a fitz document per converted chapter (_html_to_pdf) and closes it
\* after save, the EPUB route opens none
EpubSplitterSplit ==
    /\ fmt = "epub" /\ pc = "detected"
    /\ \E format \in OutputFormats, fault \in EpubSplitFaults :
       \E paths \in {epub_split(book, result.chapters, format)} :
        /\ output_format' = format
        /\ prompt' = "no command"
        /\ IF split_raises(fault, paths)
           THEN /\ \E failing \in 1..Len(paths) :
                      written' = written_before(paths, failing)
                /\ pc' = "raised"
                /\ handle' = IF format = "pdf" THEN "open" ELSE handle
                /\ UNCHANGED created_files
           ELSE /\ created_files' = paths
                /\ written' = paths
                /\ pc' = "split"
                /\ handle' = IF format = "pdf" /\ paths # <<>> THEN "closed" ELSE handle
    /\ UNCHANGED <<fmt, doc, book, sensitivity, strategy, level, result, calls,
                   fn, args, ret>>

Init == InitPdf \/ InitEpub

Next == PdfDetect \/ PdfSplit \/ EpubDetect \/ EpubSplit \/ EpubSplitterSplit

Spec == Init /\ [][Next]_vars

-----------------------------------------------------------------------------
(* File names: PDFSplitter._sanitize_filename and                         *)
(* EpubSplitter._sanitize_filename are the same function; titles, patterns *)
(* and names are sequences of characters                                   *)

DefaultMaxLength == 100

Max(S) == CHOOSE m \in S : \A n \in S : m >= n

\* characters the \s class of a str pattern matches; a character that has no
\* escape is written as its code point
whitespace ==
    {"\t", "\n", "U+000B", "\f", "\r", "U+001C", "U+001D", "U+001E", "U+001F",
     " ", "U+0085", "U+00A0", "U+1680", "U+2000", "U+2001", "U+2002", "U+2003",
     "U+2004", "U+2005", "U+2006", "U+2007", "U+2008", "U+2009", "U+200A",
     "U+2028", "U+2029", "U+202F", "U+205F", "U+3000"}

Untitled == <<"u", "n", "t", "i", "t", "l", "e", "d">>

\* re.sub(r'[\s_]+', '_', title)
collapse_separators(title) ==
    LET sep(i) == title[i] \in whitespace \cup {"_"}
        kept == SelectSeq([i \in 1..Len(title) |-> i],
                          LAMBDA i : ~sep(i) \/ i = 1 \/ ~sep(i - 1))
    IN  [k \in 1..Len(kept) |-> IF sep(kept[k]) THEN "_" ELSE title[kept[k]]]

\* str.rstrip(ch)
rstrip_char(str, ch) ==
    LET other == {i \in 1..Len(str) : str[i] # ch}
    IN  IF other = {} THEN <<>> ELSE SubSeq(str, 1, Max(other))

\* str.strip(ch)
strip_char(str, ch) ==
    LET other == {i \in 1..Len(str) : str[i] # ch}
    IN  IF other = {} THEN <<>> ELSE SubSeq(str, Min(other), Max(other))

\* str[:n]
slice_to(str, n) ==
    IF n >= 0 THEN SubSeq(str, 1, IF n < Len(str) THEN n ELSE Len(str))
    ELSE SubSeq(str, 1, Len(str) + n)

\* variant: only the path separator is replaced
invalid_chars_separator_only == {"/"}

invalid_chars == {"<", ">", ":", "\"", "/", "\\", "|", "?", "*"}

\* for char in invalid_chars: title = title.replace(char, '_')
replace_invalid(title) ==
    [i \in 1..Len(title) |-> IF title[i] \in invalid_chars THEN "_" ELSE title[i]]

\* variant: the truncated title keeps a trailing underscore
_sanitize_filename_no_rstrip(title, max_length) ==
    LET stripped == strip_char(collapse_separators(replace_invalid(title)), "_")
        truncated == IF Len(stripped) > max_length
                     THEN slice_to(stripped, max_length)
                     ELSE stripped
    IN  IF truncated = <<>> THEN Untitled ELSE truncated

_sanitize_filename(title, max_length) ==
    LET stripped == strip_char(collapse_separators(replace_invalid(title)), "_")
        truncated == IF Len(stripped) > max_length
                     THEN rstrip_char(slice_to(stripped, max_length), "_")
                     ELSE stripped
    IN  IF truncated = <<>> THEN Untitled ELSE truncated

\* str.lower
str_lower(str) == [i \in 1..Len(str) |-> lower(str[i])]

\* str.endswith
endswith(str, suffix) ==
    /\ Len(str) >= Len(suffix)
    /\ SubSeq(str, Len(str) - Len(suffix) + 1, Len(str)) = suffix

ExtPdf == <<".", "p", "d", "f">>
ExtEpub == <<".", "e", "p", "u", "b">>

\* a filename pattern is a sequence of literal characters and replacement
\* fields; "{index:02d}" renders the indices the runs use, which are below 10
FldIndex == "{index:02d}"
FldTitle == "{title}"
FldFile == "{file}"
index_02d(index) == <<"0", Digit(index)>>

\* str.format
format(pattern, fields) ==
    Concat([k \in 1..Len(pattern) |->
              IF pattern[k] \in DOMAIN fields THEN fields[pattern[k]]
              ELSE <<pattern[k]>>])

\* PDFSplitter._generate_filename: the name below output_dir
_generate_filename(filename_pattern, chapter, index) ==
    LET safe_title == _sanitize_filename(chapter.title, DefaultMaxLength)
        filename == format(filename_pattern,
                           (FldIndex :> index_02d(index)) @@ (FldTitle :> safe_title))
    IN  IF ~endswith(str_lower(filename), ExtPdf) THEN filename \o ExtPdf
        ELSE filename

\* EpubSplitter._generate_filename: the name below output_dir
epub_generate_filename(filename_pattern, format_name, chapter, index) ==
    LET safe_title == _sanitize_filename(chapter.title, DefaultMaxLength)
        file_stem == path_stem(chapter.file_path)
        filename == format(filename_pattern,
                           (FldIndex :> index_02d(index)) @@ (FldTitle :> safe_title)
                               @@ (FldFile :> file_stem))
        extension == IF format_name = "pdf" THEN ExtPdf ELSE ExtEpub
    IN  IF ~endswith(str_lower(filename), extension)
        THEN (IF \/ endswith(str_lower(filename), ExtEpub)
                 \/ endswith(str_lower(filename), ExtPdf)
              THEN slice_to(filename, -5)
              ELSE filename) \o extension
        ELSE filename

-----------------------------------------------------------------------------
(* epub_splitter.splitter.EpubSplitter: the resources a content unit      *)
(* references.  The markup of the unit is the three lists the xpath and    *)
(* url() scans find in it.                                                 *)

Markup(parses, stylesheets, images, style_urls) ==
    [parses |-> parses, stylesheets |-> stylesheets, images |-> images,
     style_urls |-> style_urls]

\* href.split("#")[0]
before_fragment(href) ==
    IF IndexOf(href, "#") > 0 THEN SubSeq(href, 1, IndexOf(href, "#") - 1) ELSE href

\* Path(name).parent, the empty sequence standing for "."
path_parent(name) ==
    IF LastIndexOf(name, "/") > 1 THEN SubSeq(name, 1, LastIndexOf(name, "/") - 1)
    ELSE <<>>

\* (base_path / href).as_posix(): an absolute href replaces the base and a
\* leading "./" is dropped
path_join(base_path, href) ==
    LET rel == IF Len(href) >= 2 /\ href[1] = "." /\ href[2] = "/"
               THEN SubSeq(href, 3, Len(href)) ELSE href
    IN  IF href # <<>> /\ Head(href) = "/" THEN href
        ELSE IF base_path = <<>> THEN (IF rel = <<>> THEN <<".">> ELSE rel)
        ELSE IF rel = <<>> THEN base_path
        ELSE base_path \o <<"/">> \o rel

\* Optional item
_resolve_resource(source_book, base_item, href) ==
    LET direct == get_item_with_href(source_book, before_fragment(href))
    IN  IF direct # None THEN direct
        ELSE get_item_with_href(source_book,
                 path_join(path_parent(base_item.name), before_fragment(href)))

\* variant: every resolved reference is appended
resources_append(resources, resource) ==
    IF resource = None THEN resources ELSE Append(resources, resource[1])

\* if resource: resources.add(resource); the set is held in insertion order
resources_add(resources, resource) ==
    IF resource = None \/ resource[1] \in Range(resources) THEN resources
    ELSE Append(resources, resource[1])

RECURSIVE add_references(_, _, _, _)
add_references(resources, source_book, html_item, hrefs) ==
    IF hrefs = <<>> THEN resources
    ELSE add_references(
             resources_add(resources,
                           _resolve_resource(source_book, html_item, Head(hrefs))),
             source_book, html_item, Tail(hrefs))

\* the hrefs the three scans hand to _resolve_resource, in scan order
scanned_hrefs(markup) ==
    SelectSeq(markup.stylesheets, LAMBDA href : href # <<>>)
        \o SelectSeq(markup.images, LAMBDA src : src # <<>>)
        \o markup.style_urls

_find_referenced_resources(source_book, html_item) ==
    IF ~html_item.content.parses THEN <<>>
    ELSE add_references(<<>>, source_book, html_item, scanned_hrefs(html_item.content))

-----------------------------------------------------------------------------
(* epub_splitter.splitter.EpubSplitter: the archive of one chapter *)

\* <html><head></head><body> element </body></html>
MinimalDocument(element) ==
    [parses |-> TRUE, title |-> None, elements |-> <<element>>,
     stylesheets |-> <<>>, images |-> <<>>, style_urls |-> <<>>]

\* variant: a missing anchor gives a document with an empty body
_extract_chapter_section_empty_body(item, html_id) ==
    LET found == SelectSeq(item.content.elements, LAMBDA e : e.id = Some(html_id))
    IN  IF ~item.content.parses THEN item.content
        ELSE IF found = <<>>
        THEN [parses |-> TRUE, title |-> None, elements |-> <<>>,
              stylesheets |-> <<>>, images |-> <<>>, style_urls |-> <<>>]
        ELSE MinimalDocument(Head(found))

\* the content returned: get_element_by_id raises for a missing id and
\* fromstring for markup that does not parse, and both end in the except
\* branch that returns item.get_content()
_extract_chapter_section(item, html_id) ==
    LET found == SelectSeq(item.content.elements, LAMBDA e : e.id = Some(html_id))
    IN  IF ~item.content.parses \/ found = <<>> THEN item.content
        ELSE MinimalDocument(Head(found))

\* for resource in resources: the orders in which the set may be iterated
iteration_orders(resources) ==
    {order \in [1..Len(resources) -> Range(resources)] :
        Range(order) = Range(resources)}

\* the items added to the new book: the content item, then the resources it
\* references in one of the orders the set iterates in (the generated
\* navigation items are left out); the set of the possible lists
_create_chapter_epub(source_book, chapter) ==
    LET main_item == get_item_with_href(source_book, chapter.file_path)
        new_item ==
            IF truthy(chapter.html_id)
            THEN [name |-> chapter.file_path, type |-> "document",
                  content |-> _extract_chapter_section(main_item[1], chapter.html_id[1])]
            ELSE [name |-> main_item[1].name, type |-> "document",
                  content |-> main_item[1].content]
    IN  IF main_item = None THEN {<<>>}
        ELSE {<<new_item>> \o order :
                 order \in iteration_orders(
                               _find_referenced_resources(source_book, new_item))}

-----------------------------------------------------------------------------
(* Direct calls of the helper functions, one call per behaviour *)

\* no document is loaded in a direct call
NoRun ==
    /\ fmt = "unit"
    /\ doc = NoDoc
    /\ book = NoBook
    /\ sensitivity = "medium"
    /\ strategy = "hybrid"
    /\ level = 0
    /\ result = NoResult
    /\ calls = <<>>
    /\ output_format = "epub"
    /\ created_files = <<>>
    /\ written = <<>>
    /\ handle = "unopened"
    /\ prompt = "none"

Texts ==
    {TxtChapter, "Part II", TxtPart, TxtTitle, TxtBody, TxtBlank, "", TxtNumbered,
     TxtLongHeading, TxtLongChapter, TxtRunOnChapter, TxtRunOn}

FontSizes == {0, 12, 14, 15, 16, 17, 24}

ConfidenceCalls == {<<text, font_size>> : text \in Texts, font_size \in FontSizes}

ThresholdCalls == {<<sens>> : sens \in Sensitivities \cup {"extreme"}}

\* titles: a run of letters around the default length limit, then a tail
MaxTail == 3
TitleChars == {"a", "_", " ", ":", "\t", "U+00A0"}
Repeat(ch, n) == [i \in 1..n |-> ch]
TitleRuns == {0} \cup ((DefaultMaxLength - 3)..DefaultMaxLength)
Titles == {Repeat("a", n) \o tail : n \in TitleRuns, tail \in SeqsUpTo(TitleChars, MaxTail)}
MaxLengths == {0, 5, DefaultMaxLength}
SanitizeCalls == {<<title, max_length>> : title \in Titles, max_length \in MaxLengths}

\* filename patterns: the two defaults, no extension, the other format's
\* extension, an upper-case extension and an extension that is not recognized
Patterns ==
    {<<FldIndex, "_", FldTitle>> \o ExtPdf,
     <<FldIndex, "_", FldTitle>> \o ExtEpub,
     <<FldTitle>>,
     <<FldTitle, ".", "P", "D", "F">>,
     <<FldFile, "_", FldTitle, ".", "E", "P", "U", "B">>,
     <<FldIndex, ".", "d", "b">>}
NameTitles == {<<"a", "b">>, <<"a", ":", " ", "b">>, <<>>, <<"a">> \o ExtPdf}
\* the PDF splitter formats no {file} field
PdfPatterns == {pattern \in Patterns : FldFile \notin Range(pattern)}
PdfNameCalls ==
    {<<pattern, "pdf", Chapter(title, 1, 1, 1, "bookmark", 100), index>> :
        pattern \in PdfPatterns, title \in NameTitles, index \in 1..MaxFiles}
EpubNameCalls ==
    {<<pattern, format_name,
       EpubChapter(title, FileName(1), None, 1, "native", 100), index>> :
        pattern \in Patterns, format_name \in {"epub", "pdf"},
        title \in NameTitles, index \in 1..MaxFiles}

\* an archive with a unit, an image beside it, and possibly an image of the
\* same file name at the root
MaxRefs == 2
UnitName == <<"t", "/", "c", ".", "x">>
BesideName == <<"t", "/", "p", ".", "g">>
RootName == <<"p", ".", "g">>
ResourceItem(name) == [id |-> name, name |-> name, type |-> "image"]
UnitItem(markup) == [id |-> UnitName, name |-> UnitName, type |-> "document",
                     content |-> markup]
Hrefs ==
    {BesideName, RootName, RootName \o <<"#", "f">>, <<".", "/">> \o RootName,
     <<"q", ".", "g">>, <<>>}
Markups ==
    {Markup(TRUE, stylesheets, images, style_urls) :
        stylesheets \in SeqsUpTo(Hrefs, 1), images \in SeqsUpTo(Hrefs, MaxRefs),
        style_urls \in SeqsUpTo(Hrefs \ {<<>>}, 1)}
    \cup {Markup(FALSE, <<>>, <<>>, <<>>)}
ResourceBooks(markup) ==
    {[items |-> <<UnitItem(markup), ResourceItem(BesideName)>>],
     [items |-> <<UnitItem(markup), ResourceItem(BesideName), ResourceItem(RootName)>>]}
ResourceCalls ==
    {<<bk, bk.items[1]>> : bk \in UNION {ResourceBooks(markup) : markup \in Markups}}

\* a unit with a heading that carries an id, beside a stylesheet that may
\* reference a font, and an image
StyleName == <<"t", "/", "s", ".", "c">>
FontName == <<"t", "/", "f", ".", "t">>
StyleItem(urls) == [id |-> StyleName, name |-> StyleName, type |-> "style", urls |-> urls]
StyledContent(parses, stylesheets, images) ==
    [parses |-> parses, title |-> None,
     elements |-> <<Heading("h1", <<"a">>, Some(<<"s">>)), Heading("h2", <<"b">>, None)>>,
     stylesheets |-> stylesheets, images |-> images, style_urls |-> <<>>]
StyledBooks ==
    {[items |-> <<UnitItem(StyledContent(parses, stylesheets, images)),
                  StyleItem(urls), ResourceItem(FontName), ResourceItem(BesideName)>>] :
        parses \in BOOLEAN,
        stylesheets \in {<<>>, <<StyleName>>, <<<<"s", ".", "c">>>>},
        images \in {<<>>, <<RootName>>},
        urls \in {<<>>, <<<<"f", ".", "t">>>>, <<FontName>>}}
\* outlines for the direct calls: links, objects that lack a title or an href,
\* sections with and without a title, nested up to three levels
MaxNodes == 2
NoTitle(href) == [kind |-> "link", href |-> href]
NoHref(title) == [kind |-> "link", title |-> title]
Group(children) == [kind |-> "section", children |-> children]
Leaves ==
    {Link(<<"A">>, UnitName \o <<"#", "s">>), NoTitle(UnitName),
     NoHref(<<"U">>), [kind |-> "other"]}
Branches ==
    {Section(<<"P">>, UnitName, children) : children \in SeqsUpTo(Leaves, MaxNodes)}
    \cup {Group(children) : children \in SeqsUpTo(Leaves, MaxNodes)}
DeepToc ==
    <<Section(<<"P">>, UnitName,
              <<Group(<<Link(<<"A">>, UnitName), NoHref(<<"U">>)>>),
                Link(<<"B">>, BesideName)>>),
      Link(<<"M">>, MissingName)>>
TocCalls ==
    {<<toc>> : toc \in {<<>>, DeepToc}}
    \cup {<<<<node>>>> : node \in Leaves \cup Branches}
    \cup {<<<<node, Link(<<"M">>, MissingName)>>>> : node \in Branches}
    \cup {<<<<Link(<<"M">>, MissingName), node>>>> : node \in Branches}

\* hrefs for _parse_href: no anchor, an anchor, an empty anchor, an anchor
\* alone, two separators, the empty string
ParseCalls ==
    {<<UnitName>>, <<UnitName \o <<"#", "s">>>>, <<UnitName \o <<"#">>>>,
     <<<<"#", "s">>>>, <<UnitName \o <<"#", "a", "#", "b">>>>, <<<<>>>>, <<<<"#">>>>}

AnchorIds == {<<"s">>, <<"z">>}
SectionCalls == {<<bk.items[1], html_id>> : bk \in StyledBooks, html_id \in AnchorIds}
ChapterCalls ==
    {<<bk, EpubChapter(<<"A">>, file_path, html_id, 1, "native", 100)>> :
        bk \in StyledBooks, file_path \in {UnitName, MissingName},
        html_id \in {None, Some(<<>>)} \cup {Some(id) : id \in AnchorIds}}

Returns(f, value) ==
    /\ fmt = "unit" /\ pc = "call" /\ fn = f
    /\ ret' = <<value>>
    /\ pc' = "returned"
    /\ UNCHANGED <<run_state, fn, args>>

\* ChapterDetector()._calculate_confidence(text, font_size)
CallCalculateConfidence ==
    Returns("_calculate_confidence", _calculate_confidence(args[1], args[2]))

\* ChapterDetector(sensitivity): font_size_ratio and min_confidence
CallSetThresholds ==
    Returns("_set_thresholds", _set_thresholds(args[1]))

\* PDFSplitter._sanitize_filename(title, max_length),
\* EpubSplitter._sanitize_filename(title, max_length)
CallSanitizeFilename ==
    Returns("_sanitize_filename", _sanitize_filename(args[1], args[2]))

\* PDFSplitter(output_dir, filename_pattern)._generate_filename(chapter, index)
CallPdfGenerateFilename ==
    Returns("pdf._generate_filename", _generate_filename(args[1], args[3], args[4]))

\* EpubSplitter(output_dir, filename_pattern, output_format)
\*     ._generate_filename(chapter, index)
CallEpubGenerateFilename ==
    Returns("epub._generate_filename",
            epub_generate_filename(args[1], args[2], args[3], args[4]))

\* EpubSplitter()._find_referenced_resources(source_book, html_item)
CallFindReferencedResources ==
    Returns("_find_referenced_resources",
            _find_referenced_resources(args[1], args[2]))

\* EpubSplitter()._extract_chapter_section(item, html_id)
CallExtractChapterSection ==
    Returns("_extract_chapter_section", _extract_chapter_section(args[1], args[2]))

\* EpubSplitter()._create_chapter_epub(source_book, chapter, preserve_metadata)
CallCreateChapterEpub ==
    /\ fmt = "unit" /\ pc = "call" /\ fn = "_create_chapter_epub"
    /\ \E items \in _create_chapter_epub(args[1], args[2]) :
           Returns("_create_chapter_epub", items)

\* EpubChapterDetector()._extract_toc_entries(toc_items, chapters := [])
CallExtractTocEntries ==
    Returns("_extract_toc_entries", _extract_toc_entries(args[1], 1))

\* EpubChapterDetector()._parse_href(href)
CallParseHref ==
    Returns("_parse_href", _parse_href(args[1]))

InitUnit ==
    /\ NoRun
    /\ pc = "call"
    /\ ret = <<>>
    /\ \/ fn = "_calculate_confidence" /\ args \in ConfidenceCalls
       \/ fn = "_set_thresholds" /\ args \in ThresholdCalls
       \/ fn = "_sanitize_filename" /\ args \in SanitizeCalls
       \/ fn = "pdf._generate_filename" /\ args \in PdfNameCalls
       \/ fn = "epub._generate_filename" /\ args \in EpubNameCalls
       \/ fn = "_find_referenced_resources" /\ args \in ResourceCalls
       \/ fn = "_extract_chapter_section" /\ args \in SectionCalls
       \/ fn = "_create_chapter_epub" /\ args \in ChapterCalls
       \/ fn = "_extract_toc_entries" /\ args \in TocCalls
       \/ fn = "_parse_href" /\ args \in ParseCalls

NextUnit ==
    \/ CallCalculateConfidence
    \/ CallSetThresholds
    \/ CallSanitizeFilename
    \/ CallPdfGenerateFilename
    \/ CallEpubGenerateFilename
    \/ CallFindReferencedResources
    \/ CallExtractChapterSection
    \/ CallCreateChapterEpub
    \/ CallExtractTocEntries
    \/ CallParseHref

SpecUnit == InitUnit /\ [][NextUnit]_vars

\* split runs and direct calls together
InitAll == Init \/ InitUnit

NextAll ==
    \/ PdfDetect
    \/ PdfSplit
    \/ EpubDetect
    \/ EpubSplit
    \/ EpubSplitterSplit
    \/ CallCalculateConfidence
    \/ CallSetThresholds
    \/ CallSanitizeFilename
    \/ CallPdfGenerateFilename
    \/ CallEpubGenerateFilename
    \/ CallFindReferencedResources
    \/ CallExtractChapterSection
    \/ CallCreateChapterEpub
    \/ CallExtractTocEntries
    \/ CallParseHref

SpecAll == InitAll /\ [][NextAll]_vars

-----------------------------------------------------------------------------
(* Properties *)

Detected == pc \in {"detected", "split"}

Indices == 1..Len(result.chapters)

\* the outline entries of the requested level
LevelItems == SelectSeq(doc.toc, LAMBDA item : item.level = level)

\* the requested outline entries start on strictly increasing pages of the document
IncreasingStarts ==
    /\ \A i \in 1..Len(LevelItems) :
          LevelItems[i].page >= 1 /\ LevelItems[i].page <= doc.total_pages
    /\ \A i \in 1..(Len(LevelItems) - 1) : LevelItems[i].page < LevelItems[i + 1].page

\* the detectors the requested PDF strategy selects yield no chapter
NothingDetected ==
    /\ strategy \in {"bookmarks", "hybrid"} => _detect_from_bookmarks(doc, level) = <<>>
    /\ strategy \in {"heuristic", "hybrid"} =>
          _detect_from_heuristics(doc, sensitivity) = <<>>

\* every page of the document lies in some returned chapter
CoversDocument ==
    \A p \in 1..result.total_pages :
        \E i \in Indices :
            result.chapters[i].start_page <= p /\ p <= result.chapters[i].end_page

\* C1: every detection result, PDF or EPUB, holds at least one chapter.
C1_NeverEmpty == Detected => Len(result.chapters) >= 1

\* C2: the chapters of a PDF detection result are ordered and pairwise
\* non-overlapping: an earlier chapter ends before a later one starts.
C2_OrderedNonOverlapping ==
    (fmt = "pdf" /\ Detected) =>
        \A i, j \in Indices :
            i < j => result.chapters[i].end_page < result.chapters[j].start_page

\* C3: no chapter of a PDF detection result has start_page > end_page.
C3_NoEmptyRange ==
    (fmt = "pdf" /\ Detected) =>
        \A i \in Indices :
            /\ result.chapters[i].start_page <= result.chapters[i].end_page
            /\ page_count(result.chapters[i]) >= 1

\* C4: start_page and end_page of every PDF chapter lie within [1, total_pages].
C4_WithinDocument ==
    (fmt = "pdf" /\ Detected) =>
        \A i \in Indices :
            /\ 1 <= result.chapters[i].start_page
            /\ result.chapters[i].start_page <= result.total_pages
            /\ 1 <= result.chapters[i].end_page
            /\ result.chapters[i].end_page <= result.total_pages

\* C5: when the outline entries of the requested level start on strictly
\* increasing pages p1 < ... < pn within the document, the bookmark detector
\* returns n chapters, chapter i covering [p_i, p_(i+1) - 1] and the last one
\* [p_n, total_pages]; detect returns them when the bookmark detector ran and
\* n >= 1.
C5_RangeResolution ==
    (fmt = "pdf" /\ Detected /\ IncreasingStarts) =>
        LET n == Len(LevelItems)
            expected(i) == [start_page |-> LevelItems[i].page,
                            end_page |-> IF i < n THEN LevelItems[i + 1].page - 1
                                         ELSE doc.total_pages]
            found == _detect_from_bookmarks(doc, level)
        IN  /\ Len(found) = n
            /\ \A i \in 1..n :
                  /\ found[i].start_page = expected(i).start_page
                  /\ found[i].end_page = expected(i).end_page
            /\ ("bookmarks" \in Range(calls) /\ n >= 1) =>
                  /\ Len(result.chapters) = n
                  /\ \A i \in 1..n :
                        /\ result.chapters[i].start_page = expected(i).start_page
                        /\ result.chapters[i].end_page = expected(i).end_page
                        /\ result.chapters[i].detection_method = "bookmark"

C5_Witness ==
    /\ fmt = "pdf" /\ pc = "detected" /\ strategy = "bookmarks"
    /\ IncreasingStarts /\ Len(LevelItems) = 2 /\ doc.total_pages = 2
    /\ Len(result.chapters) = 2
    /\ result.chapters[1].start_page = 1 /\ result.chapters[1].end_page = 1
    /\ result.chapters[2].start_page = 2 /\ result.chapters[2].end_page = 2

\* C6: when the detectors the strategy selects yield no chapter, the PDF
\* detection result is the single chapter "Complete Document" over pages
\* 1..total_pages, method fallback, confidence 1.0, and strategy_used is
\* "fallback".
C6_WholeDocumentFallback ==
    (fmt = "pdf" /\ Detected /\ NothingDetected) =>
        /\ Len(result.chapters) = 1
        /\ result.chapters[1].title = "Complete Document"
        /\ result.chapters[1].start_page = 1
        /\ result.chapters[1].end_page = doc.total_pages
        /\ result.chapters[1].detection_method = "fallback"
        /\ result.chapters[1].confidence = 100
        /\ result.strategy_used = "fallback"

C6_Witness ==
    /\ fmt = "pdf" /\ pc = "detected" /\ strategy = "hybrid"
    /\ doc.toc # <<>> /\ doc.total_pages = 2
    /\ calls = <<"bookmarks", "heuristic">>
    /\ NothingDetected
    /\ result.strategy_used = "fallback"
    /\ result.chapters[1].end_page = 2

\* s occurs in calls, and every call before it is named in earlier
CalledAfterOnly(s, earlier) ==
    \A i \in 1..Len(calls) :
        calls[i] = s => \A j \in 1..(i - 1) : calls[j] \in earlier

\* C7: under hybrid the detectors are tried in the order outline, heuristic or
\* structural, manifest; a later one runs exactly when every earlier one
\* yielded no chapter, and the result holds the chapters of the first detector
\* that yielded any.
C7_HybridOrder ==
    (Detected /\ strategy = "hybrid") =>
        IF fmt = "pdf"
        THEN LET outline == _detect_from_bookmarks(doc, level)
                 heuristic == _detect_from_heuristics(doc, sensitivity)
             IN  /\ Range(calls) \subseteq {"bookmarks", "heuristic"}
                 /\ CalledAfterOnly("bookmarks", {})
                 /\ CalledAfterOnly("heuristic", {"bookmarks"})
                 /\ "heuristic" \in Range(calls) <=> outline = <<>>
                 /\ outline # <<>> => result.chapters = outline
                 /\ (outline = <<>> /\ heuristic # <<>>) => result.chapters = heuristic
        ELSE LET outline == _detect_from_toc(book, level).chapters
                 structural == _detect_from_structure(book, sensitivity)
                 manifest == _detect_from_manifest(book)
             IN  /\ Range(calls) \subseteq {"native", "structural", "manifest"}
                 /\ CalledAfterOnly("native", {})
                 /\ CalledAfterOnly("structural", {"native"})
                 /\ CalledAfterOnly("manifest", {"native", "structural"})
                 /\ "native" \in Range(calls)
                 /\ "structural" \in Range(calls) <=> outline = <<>>
                 /\ "manifest" \in Range(calls) <=> (outline = <<>> /\ structural = <<>>)
                 /\ outline # <<>> => result.chapters = outline
                 /\ (outline = <<>> /\ structural # <<>>) => result.chapters = structural
                 /\ (outline = <<>> /\ structural = <<>>) => result.chapters = manifest

C7_Witness ==
    /\ fmt = "pdf" /\ pc = "detected" /\ strategy = "hybrid"
    /\ calls = <<"bookmarks", "heuristic">>
    /\ Len(result.chapters) >= 1
    /\ result.chapters[1].detection_method = "heuristic"

\* the stage that produced the returned chapters, read off the chapters
ProducingStage ==
    IF result.chapters = <<>> THEN "none" ELSE result.chapters[1].detection_method

\* C8: strategy_used names the stage that produced the returned chapters.
C8_StrategyUsedNamesStage ==
    Detected =>
        /\ ProducingStage = "bookmark" => result.strategy_used = "bookmarks"
        /\ ProducingStage = "heuristic" => result.strategy_used = "heuristic"
        /\ ProducingStage = "fallback" => result.strategy_used = "fallback"
        /\ ProducingStage = "native" => result.strategy_used = "native"
        /\ ProducingStage = "structural" =>
              result.strategy_used \in {"structural", "structural (fallback)"}
        /\ ProducingStage = "manifest" =>
              result.strategy_used \in {"manifest", "manifest (fallback)"}

\* C9: split returns exactly one path per chapter, in chapter order.
C9_OneFilePerChapter ==
    pc = "split" =>
        /\ Len(created_files) = Len(result.chapters)
        /\ \A i \in 1..Len(created_files) : created_files[i].index = i

\* C10: when the chapters of a PDF detection result cover every page of the
\* document, their page counts add up to total_pages.
C10_PageCountRoundTrip ==
    (fmt = "pdf" /\ Detected /\ CoversDocument) =>
        SumSeq([i \in Indices |-> page_count(result.chapters[i])]) = result.total_pages

Returned(f) == fmt = "unit" /\ pc = "returned" /\ fn = f

InUnitInterval(confidence) == confidence >= 0 /\ confidence <= 100

\* C11: every chapter of every detection result has a confidence within
\* [0.0, 1.0], and _calculate_confidence returns a value within [0.0, 1.0]
\* for every text and font size.
C11_ConfidenceInUnitInterval ==
    /\ Detected => \A i \in Indices : InUnitInterval(result.chapters[i].confidence)
    /\ Returned("_calculate_confidence") => InUnitInterval(ret[1])

\* a heuristic chapter whose score reaches the upper end of the interval
C11_Witness ==
    /\ fmt = "pdf" /\ Detected
    /\ \E i \in Indices :
          /\ result.chapters[i].detection_method = "heuristic"
          /\ result.chapters[i].confidence = 100

\* the score the confidence rules of the specification give, in hundredths
DocumentedScore(text, font_size) ==
    LET sum == 50
               + (IF CHAPTER_PATTERNS(text) THEN 40 ELSE 0)
               + (IF font_size >= 16 THEN 10 ELSE IF font_size >= 14 THEN 5 ELSE 0)
               - (IF word_count(text) > 10 THEN 20
                  ELSE IF word_count(text) > 6 THEN 10 ELSE 0)
    IN  IF sum > 100 THEN 100 ELSE IF sum < 0 THEN 0 ELSE sum

\* C12: _calculate_confidence is the clamped sum of base 0.5, +0.4 for a
\* pattern match, +0.1 for size >= 16 or else +0.05 for size >= 14, -0.2 for
\* more than 10 words or else -0.1 for more than 6; so a pattern-matched
\* heading of size >= 16 with at most 6 words scores >= 0.8 and a text that
\* matches no pattern scores below 0.8.
C12_ConfidenceScore ==
    Returned("_calculate_confidence") =>
        /\ ret[1] = DocumentedScore(args[1], args[2])
        /\ (CHAPTER_PATTERNS(args[1]) /\ args[2] >= 16 /\ word_count(args[1]) <= 6)
              => ret[1] >= 80
        /\ ~CHAPTER_PATTERNS(args[1]) => ret[1] < 80

\* "Chapter 1: Introduction" at 16pt
C12_Witness ==
    /\ Returned("_calculate_confidence")
    /\ args = <<TxtChapter, 16>>
    /\ ret[1] >= 80

\* C13: _sanitize_filename is idempotent under the default max_length,
\* including titles that are truncated and titles that sanitise to "untitled".
C13_SanitizeIdempotent ==
    (Returned("_sanitize_filename") /\ args[2] = DefaultMaxLength) =>
        _sanitize_filename(ret[1], DefaultMaxLength) = ret[1]

\* a title cut at the limit on an underscore
C13_Witness ==
    /\ Returned("_sanitize_filename") /\ args[2] = DefaultMaxLength
    /\ Len(args[1]) > DefaultMaxLength
    /\ Len(ret[1]) < DefaultMaxLength
    /\ "_" \in Range(args[1])

\* C14: for every title and every max_length the sanitised name is at most
\* max_length characters long.
C14_LengthWithinMaxLength ==
    Returned("_sanitize_filename") => Len(ret[1]) <= args[2]

\* C15: the sanitised name contains none of < > : " / \ | ? * and no
\* whitespace character.
C15_NoInvalidCharacters ==
    Returned("_sanitize_filename") =>
        \A i \in 1..Len(ret[1]) :
            ret[1][i] \notin {"<", ">", ":", "\"", "/", "\\", "|", "?", "*"}
                                  \cup whitespace

\* a title with a colon and a tab between letters
C15_Witness ==
    /\ Returned("_sanitize_filename")
    /\ ":" \in Range(args[1]) /\ "\t" \in Range(args[1])
    /\ "U+00A0" \in Range(args[1])
    /\ ret[1] # Untitled

RecognizedExtension(name) ==
    endswith(str_lower(name), ExtPdf) \/ endswith(str_lower(name), ExtEpub)

\* the name without its trailing recognized extension
Stem(name) ==
    IF endswith(str_lower(name), ExtPdf) THEN SubSeq(name, 1, Len(name) - Len(ExtPdf))
    ELSE IF endswith(str_lower(name), ExtEpub)
    THEN SubSeq(name, 1, Len(name) - Len(ExtEpub))
    ELSE name

\* the pattern of the call formatted with the fields of its chapter
Formatted ==
    format(args[1],
           (FldIndex :> index_02d(args[4]))
               @@ (FldTitle :> _sanitize_filename(args[3].title, DefaultMaxLength))
               @@ (FldFile :> IF fn = "epub._generate_filename"
                               THEN path_stem(args[3].file_path) ELSE <<>>))

\* C16: the generated name is the formatted name without its trailing
\* recognized extension (.pdf or .epub in any case), followed by the
\* extension of the output format (in any case): no second recognized
\* extension is appended and no character of the stem is lost.
C16_ExtensionReplaced ==
    (Returned("pdf._generate_filename") \/ Returned("epub._generate_filename")) =>
        /\ endswith(str_lower(ret[1]), IF args[2] = "pdf" THEN ExtPdf ELSE ExtEpub)
        /\ Stem(ret[1]) = Stem(Formatted)

\* C17: each archive item a content unit references occurs exactly once in
\* the result of _find_referenced_resources, whatever the number and the
\* routes of the references to it.
C17_ResourcesOnce ==
    Returned("_find_referenced_resources") =>
        LET source_book == args[1]
            html_item == args[2]
            hrefs == scanned_hrefs(html_item.content)
            referenced(item) ==
                /\ html_item.content.parses
                /\ \E k \in 1..Len(hrefs) :
                      _resolve_resource(source_book, html_item, hrefs[k]) = Some(item)
        IN  \A item \in Range(source_book.items) :
                Cardinality({i \in 1..Len(ret[1]) : ret[1][i] = item})
                    = IF referenced(item) THEN 1 ELSE 0

\* one image reached by a direct stylesheet link and by a relative img src
C17_Witness ==
    /\ Returned("_find_referenced_resources")
    /\ args[2].content.stylesheets = <<BesideName>>
    /\ RootName \o <<"#", "f">> \in Range(args[2].content.images)
    /\ Len(args[1].items) = 2
    /\ ret[1] = <<ResourceItem(BesideName)>>

\* C18: the document handle a detect or split call opens is closed when
\* control leaves the call, on a normal return and when a step raises.
C18_HandleReleased == handle # "open"

LowConfidence == \E i \in Indices : result.chapters[i].confidence < 50

FallbackResult ==
    result.strategy_used \in {"fallback", "structural (fallback)", "manifest (fallback)"}

\* C19: a split command that writes files for a fallback result or a result
\* with low-confidence chapters has asked for confirmation first, and a
\* declined confirmation leaves nothing written.
C19_WarnedBeforeWriting ==
    /\ (pc = "split" /\ prompt # "no command" /\ (FallbackResult \/ LowConfidence))
           => prompt = "accepted"
    /\ prompt = "declined" => pc = "aborted" /\ created_files = <<>>

\* C20: low gives font_size_ratio 1.5 and min_confidence 0.8, medium 1.3 and
\* 0.6, high 1.2 and 0.4.
C20_ThresholdTable ==
    Returned("_set_thresholds") =>
        /\ args[1] = "low" => ret[1] = [font_size_ratio |-> 15, min_confidence |-> 80]
        /\ args[1] = "medium" => ret[1] = [font_size_ratio |-> 13, min_confidence |-> 60]
        /\ args[1] = "high" => ret[1] = [font_size_ratio |-> 12, min_confidence |-> 40]

C20_Witness ==
    /\ Returned("_set_thresholds")
    /\ args = <<"low">>
    /\ ret[1].min_confidence = 80

\* the outline entries start on strictly increasing pages of the document
StartsIncrease(items) ==
    /\ \A i \in 1..Len(items) : items[i].page >= 1 /\ items[i].page <= doc.total_pages
    /\ \A i \in 1..(Len(items) - 1) : items[i].page < items[i + 1].page

\* the number of TOC nodes at the wanted depth, of all nodes when wanted is 0
RECURSIVE CountAtDepth(_, _, _)
CountAtDepth(toc_items, depth, wanted) ==
    IF toc_items = <<>> THEN 0
    ELSE (IF wanted = 0 \/ depth = wanted THEN 1 ELSE 0)
         + CountAtDepth(Head(toc_items).children, depth + 1, wanted)
         + CountAtDepth(Tail(toc_items), depth, wanted)

\* C21: with a requested level >= 1 only the outline entries of exactly that
\* level become chapters; with a requested level <= 0 every outline entry of
\* every level becomes a chapter, in the PDF bookmark extractor and in the
\* EPUB TOC extractor.
C21_LevelFiltering ==
    /\ (fmt = "pdf" /\ Detected /\ "bookmarks" \in Range(calls)) =>
          LET wanted == IF level >= 1 THEN LevelItems ELSE doc.toc
          IN  (wanted # <<>> /\ StartsIncrease(wanted)) =>
                  /\ Len(result.chapters) = Len(wanted)
                  /\ \A i \in 1..Len(wanted) :
                        /\ result.chapters[i].detection_method = "bookmark"
                        /\ result.chapters[i].level = wanted[i].level
                        /\ result.chapters[i].start_page = wanted[i].page
    /\ (fmt = "epub" /\ Detected /\ strategy = "native") =>
          /\ Len(result.chapters)
                = CountAtDepth(book.toc, 1, IF level >= 1 THEN level ELSE 0)
          /\ level >= 1 => \A i \in Indices : result.chapters[i].level = level

\* the detection_method the detector of a single-detector strategy gives
NamedMethod ==
    CASE strategy = "bookmarks" -> "bookmark"
      [] strategy = "heuristic" -> "heuristic"
      [] strategy = "native" -> "native"
      [] strategy = "structural" -> "structural"
      [] OTHER -> "none"

\* C22: under a single-detector strategy only the named detector runs, and
\* every returned chapter is its own or the single whole-document fallback
\* chapter, even when it finds nothing and another detector would.
C22_SingleDetector ==
    (Detected /\ strategy \in {"bookmarks", "heuristic", "native", "structural"}) =>
        /\ calls = <<strategy>>
        /\ \/ \A i \in Indices : result.chapters[i].detection_method = NamedMethod
           \/ /\ Len(result.chapters) = 1
              /\ result.chapters[1].detection_method = "fallback"

\* the bookmark detector finds nothing where the heuristics would find a heading
C22_Witness ==
    /\ fmt = "pdf" /\ pc = "detected" /\ strategy = "bookmarks"
    /\ _detect_from_bookmarks(doc, level) = <<>>
    /\ _detect_from_heuristics(doc, sensitivity) # <<>>
    /\ calls = <<"bookmarks">>
    /\ result.chapters[1].detection_method = "fallback"

\* C23: the resources added to a chapter's archive are closed under
\* reference: a resource that an added stylesheet references and that
\* resolves in the source archive is added too.
C23_TransitiveResources ==
    Returned("_create_chapter_epub") =>
        \A i \in 1..Len(ret[1]) :
            ret[1][i].type = "style" =>
                \A k \in 1..Len(ret[1][i].urls) :
                    LET target == _resolve_resource(args[1], ret[1][i], ret[1][i].urls[k])
                    IN  target # None => target[1] \in Range(ret[1])

\* C26: for a chapter with an anchor, _extract_chapter_section returns a
\* minimal document holding the element with that id when there is one, and
\* the unit's original content, unmodified, when no element has the id or
\* the unit does not parse.
C26_AnchorFallback ==
    Returned("_extract_chapter_section") =>
        LET content == args[1].content
            anchored == {j \in 1..Len(content.elements) :
                            content.elements[j].id = Some(args[2])}
        IN  IF content.parses /\ anchored # {}
            THEN /\ ret[1].elements = <<content.elements[Min(anchored)]>>
                 /\ ret[1].stylesheets = <<>> /\ ret[1].images = <<>>
            ELSE ret[1] = content

\* an anchor that no element of a parsed unit carries
C26_Witness ==
    /\ Returned("_extract_chapter_section")
    /\ args[1].content.parses /\ args[2] = <<"z">>
    /\ args[1].content.stylesheets # <<>>
    /\ ret[1] = args[1].content

\* split raised while it was writing the chapters
SplitRaised == pc = "raised" /\ result # NoResult

\* C24: when saving a chapter fails during split, no later chapter is
\* written and the caller is given the paths of the files written before the
\* failure.
C24_PartialOutputReported ==
    SplitRaised =>
        /\ Len(written) < Len(result.chapters)
        /\ created_files = written

\* the document files of the book that parse
ParsedItems == SelectSeq(get_items_of_type(book, "document"),
                         LAMBDA item : item.content.parses)

\* C25: a page or content file that fails to parse during heuristic or
\* structural detection is skipped: detect does not raise and the headings
\* of every other unit are returned.
C25_ParseFailureSkipped ==
    /\ ~(fmt = "pdf" /\ pc = "raised" /\ "heuristic" \in Range(calls))
    /\ (fmt = "epub" /\ Detected /\ strategy = "structural") =>
          \A k \in 1..Len(ParsedItems) :
              \A e \in 1..Len(ParsedItems[k].content.elements) :
                  LET el == ParsedItems[k].content.elements[e]
                  IN  (/\ el.tag \in Range(heading_tags(sensitivity))
                       /\ str_strip(el.text) # <<>>) =>
                          \E i \in Indices :
                              /\ result.chapters[i].file_path = ParsedItems[k].name
                              /\ result.chapters[i].title = str_strip(el.text)

\* the position of a structural chapter: its file among the document files
\* and its heading among the elements of that file
FileIndex(ch) ==
    LET items == get_items_of_type(book, "document")
    IN  Min({k \in 1..Len(items) : items[k].name = ch.file_path})

ElementIndex(ch) ==
    LET elements == get_items_of_type(book, "document")[FileIndex(ch)].content.elements
    IN  Min({e \in 1..Len(elements) :
                /\ str_strip(elements[e].text) = ch.title
                /\ tag_level(elements[e].tag) = ch.level})

\* C27: structural detection returns the headings in document order: an
\* earlier content file first, and within a file the earlier heading first,
\* whatever the tags.
C27_OrderedByPosition ==
    (fmt = "epub" /\ Detected /\ strategy = "structural") =>
        \A i, j \in Indices :
            i < j =>
                \/ FileIndex(result.chapters[i]) < FileIndex(result.chapters[j])
                \/ /\ FileIndex(result.chapters[i]) = FileIndex(result.chapters[j])
                   /\ ElementIndex(result.chapters[i]) < ElementIndex(result.chapters[j])

\* C29: every page from 1 to total_pages lies in the range of at least one
\* chapter of every PDF detection result.
C29_EveryPageCovered ==
    (fmt = "pdf" /\ Detected) => CoversDocument

\* the nodes of an outline in depth-first pre-order, each with its depth: a
\* section before its children, the children before the next sibling
RECURSIVE Preorder(_, _)
Preorder(nodes, depth) ==
    IF nodes = <<>> THEN <<>>
    ELSE <<[node |-> Head(nodes), depth |-> depth]>>
         \o (IF Head(nodes).kind = "section"
             THEN Preorder(Head(nodes).children, depth + 1)
             ELSE <<>>)
         \o Preorder(Tail(nodes), depth)

TitledAndLinked(nodes) ==
    SelectSeq(Preorder(nodes, 1),
              LAMBDA e : "title" \in DOMAIN e.node /\ "href" \in DOMAIN e.node)

\* C28: _extract_toc_entries emits exactly one chapter per node that has a
\* title and an href, in depth-first pre-order, with level 1 for root nodes
\* and the parent's level + 1 for children, each with confidence 1.0 and
\* detection method native.
C28_OutlineTraversal ==
    Returned("_extract_toc_entries") =>
        LET expected == TitledAndLinked(args[1])
        IN  /\ Len(ret[1]) = Len(expected)
            /\ \A i \in 1..Len(expected) :
                    /\ ret[1][i].title = expected[i].node.title
                    /\ location(ret[1][i]) = expected[i].node.href
                    /\ ret[1][i].level = expected[i].depth
                    /\ ret[1][i].confidence = 100
                    /\ ret[1][i].detection_method = "native"

\* three levels, a group without a title whose child is emitted at level 3,
\* and a sibling after the section
C28_Witness ==
    /\ Returned("_extract_toc_entries")
    /\ args[1] = DeepToc
    /\ [i \in 1..Len(ret[1]) |-> ret[1][i].level] = <<1, 3, 2, 1>>
    /\ [i \in 1..Len(ret[1]) |-> ret[1][i].title] = <<<<"P">>, <<"A">>, <<"B">>, <<"M">>>>

\* C30: for every href h, the chapter built from _parse_href(h) has
\* location = h.
C30_LocationRoundTrip ==
    Returned("_parse_href") =>
        location(EpubChapter(<<"A">>, ret[1].file_path, ret[1].html_id,
                             1, "native", 100)) = args[1]
====
